---------------------------- MODULE Spec2Model ----------------------------
(***************************************************************************)
(* FuzzyWordCompleter (prompt_toolkit/completion/fuzzy_completer.py).      *)
(*                                                                         *)
(* One completer object and one get_completions request on it.  Strings    *)
(* are sequences of one-character strings; Python's 0-based positions are  *)
(* kept, so the character at Python position p of w is w[p + 1].           *)
(* Completion.display_meta (a dictionary lookup by word) is left out: no   *)
(* statement below reads it and it changes no other field.                 *)
(***************************************************************************)
EXTENDS Integers, Sequences, FiniteSets

(***************************************************************************)
(* Bound of the inputs.  A candidate list costs one per entry plus one per *)
(* character; a query is at most MaxQueryLen characters.                   *)
(***************************************************************************)
MaxSize == 5
MaxQueryLen == 2

\* Characters of candidate words: a lower-case letter, an upper-case letter
\* and the line break.  Queries are typed in lower case, so "a" meets its
\* own case in a word and "b" only meets the other case, "B".
WordAlphabet == {"a", "B", "\n"}
QueryAlphabet == {"a", "b"}

\* An entry of a candidate list that is not a string (an int, None, ...).
NonString == <<"<not a string>">>

\* isinstance(w, string_types)
IsString(w) == w # NonString

VARIABLES
    self_words,      \* self.words: the list, or the list the callable returns
    words_callable,  \* callable(self.words)
    sort_results,    \* self.sort_results
    word_before_cursor, \* document.get_word_before_cursor(WORD=self.WORD)
    pc,              \* where the object / the generator stands
    calls,           \* number of invocations of the callable so far
    words,           \* local `words` of get_completions
    i,               \* loop position (candidates matched, then matches yielded)
    fuzzy_matches,   \* local list of _FuzzyMatch
    results          \* Completions yielded to the caller so far

vars == <<self_words, words_callable, sort_results, word_before_cursor,
          pc, calls, words, i, fuzzy_matches, results>>

---------------------------------------------------------------------------
(* Python helpers *)

Min2(a, b) == IF a <= b THEN a ELSE b

\* w[a:b] with Python's clamping of slice bounds (0 <= a).
Slice(w, a, b) == SubSeq(w, a + 1, Min2(b, Len(w)))

\* c.lower(), which is what re.IGNORECASE compares for these characters.
Lower(c) == IF c = "B" THEN "b" ELSE c

\* A literal pattern character (re.escape(q)) against c under re.IGNORECASE.
LiteralMatches(q, c) == Lower(q) = Lower(c)

\* `.` without re.DOTALL: any character except the line break.
DotMatches(c) == c # "\n"

\* Python's tuple order on (start, length) keys.
KeyLess(k1, k2) == k1[1] < k2[1] \/ (k1[1] = k2[1] /\ k1[2] < k2[2])

---------------------------------------------------------------------------
(* The regular expression q1.*?q2.*? ... qn, by backtracking as re runs it *)

RECURSIVE MatchLiteral(_, _, _, _), MatchLazyStar(_, _, _, _)

\* Match literal number k of the pattern at position p, then the rest of
\* the pattern.  The end position of the first match found, or -1.
MatchLiteral(q, w, k, p) ==
    IF p >= Len(w) \/ ~LiteralMatches(q[k], w[p + 1]) THEN -1
    ELSE IF k = Len(q) THEN p + 1
    ELSE MatchLazyStar(q, w, k + 1, p + 1)

RECURSIVE MatchGreedyStar(_, _, _, _)
\* The pattern written with `.*` in place of `.*?`: consume first, give
\* back only when the rest of the pattern fails.
MatchGreedyStar(q, w, k, p) ==
    LET r == IF p < Len(w) /\ DotMatches(w[p + 1]) THEN MatchGreedyStar(q, w, k, p + 1) ELSE -1
    IN IF r # -1 THEN r ELSE MatchLiteral(q, w, k, p)

\* `.*?` followed by literal k: first try to go on without consuming, and
\* only when the rest of the pattern fails consume one more `.`.
MatchLazyStar(q, w, k, p) ==
    LET r == MatchLiteral(q, w, k, p) IN
    IF r # -1 THEN r
    ELSE IF p < Len(w) /\ DotMatches(w[p + 1]) THEN MatchLazyStar(q, w, k, p + 1)
    ELSE -1

\* The lookahead (?=(pat)) tried at position p: end of group 1, or -1.
\* The empty query gives the empty pattern, which matches everywhere.
Lookahead(q, w, p) == IF q = <<>> THEN p ELSE MatchLiteral(q, w, 1, p)

RECURSIVE FindIterFrom(_, _, _)
FindIterFrom(q, w, p) ==
    IF p > Len(w) THEN <<>>
    ELSE LET e == Lookahead(q, w, p) IN
         (IF e = -1 THEN <<>> ELSE <<[start |-> p, group1 |-> e - p]>>)
         \o FindIterFrom(q, w, p + 1)

\* A scan that never tries position 0.
FindIter_FromOne(q, w) == FindIterFrom(q, w, 1)

\* list(regex.finditer(word)): the zero-width matches, one per position
\* 0 .. len(word) where the lookahead succeeds, in increasing position.
FindIter(q, w) == FindIterFrom(q, w, 0)

\* lambda m: (m.start(), len(m.group(1)))
MatchKey(m) == <<m.start, m.group1>>

RECURSIVE MinFrom(_, _, _)
MinFrom(ms, best, k) ==
    IF k > Len(ms) THEN best
    ELSE MinFrom(ms, IF KeyLess(MatchKey(ms[k]), MatchKey(best)) THEN ms[k] ELSE best, k + 1)

RECURSIVE MinFrom_ShortestFirst(_, _, _)
MinFrom_ShortestFirst(ms, best, k) ==
    IF k > Len(ms) THEN best
    ELSE MinFrom_ShortestFirst(
             ms,
             IF KeyLess(<<ms[k].group1, ms[k].start>>, <<best.group1, best.start>>)
             THEN ms[k] ELSE best,
             k + 1)

\* min with the key written (length, start).
BestMatch_ShortestFirst(ms) == MinFrom_ShortestFirst(ms, ms[1], 2)

\* min(matches, key=...): the first element of least key.
BestMatch(ms) == MinFrom(ms, ms[1], 2)

\* _FuzzyMatch(len(best.group(1)), best.start(), word)
FuzzyMatchOf(q, w) ==
    LET best == BestMatch(FindIter(q, w)) IN
    [match_length |-> best.group1, start_pos |-> best.start, word |-> w]

---------------------------------------------------------------------------
(* sorted(fuzzy_matches, key=sort_key) *)

sort_key(m) == <<m.start_pos, m.match_length>>

RECURSIVE InsertSorted_Unstable(_, _)
\* m goes before the elements of equal key.
InsertSorted_Unstable(s, m) ==
    IF s = <<>> THEN <<m>>
    ELSE IF ~KeyLess(sort_key(s[1]), sort_key(m)) THEN <<m>> \o s
    ELSE <<s[1]>> \o InsertSorted_Unstable(Tail(s), m)

RECURSIVE InsertSorted(_, _)
\* m goes after every element whose key is not greater (stable).
InsertSorted(s, m) ==
    IF s = <<>> THEN <<m>>
    ELSE IF KeyLess(sort_key(m), sort_key(s[1])) THEN <<m>> \o s
    ELSE <<s[1]>> \o InsertSorted(Tail(s), m)

RECURSIVE SortedFrom(_, _, _)
SortedFrom(ms, acc, k) ==
    IF k > Len(ms) THEN acc ELSE SortedFrom(ms, InsertSorted(acc, ms[k]), k + 1)

Sorted(ms) == SortedFrom(ms, <<>>, 1)

---------------------------------------------------------------------------
(* _get_display *)

RECURSIVE MatchRegion(_, _)
\* The loop over the characters of the match: `characters` is the list of
\* query characters not yet consumed.
MatchRegion(span, characters) ==
    IF span = <<>> THEN <<>>
    ELSE LET c == Head(span)
             hit == characters # <<>> /\ c = Head(characters)
         IN <<[class |-> IF hit THEN "class:fuzzymatch.inside.character"
                                ELSE "class:fuzzymatch.inside",
               text |-> <<c>>]>>
            \o MatchRegion(Tail(span), IF hit THEN Tail(characters) ELSE characters)

\* The text after the match taken one character too far to the right.
get_display_SuffixOffByOne(m, q) ==
    IF m.match_length = 0 THEN <<[class |-> "", text |-> m.word]>>
    ELSE <<[class |-> "class:fuzzymatch.outside", text |-> Slice(m.word, 0, m.start_pos)]>>
         \o MatchRegion(Slice(m.word, m.start_pos, m.start_pos + m.match_length), q)
         \o <<[class |-> "class:fuzzymatch.outside",
               text |-> Slice(m.word, m.start_pos + m.match_length + 1, Len(m.word))]>>

\* A plain string as display, which to_formatted_text reads as one
\* fragment without a style.
get_display(m, q) ==
    IF m.match_length = 0 THEN <<[class |-> "", text |-> m.word]>>
    ELSE <<[class |-> "class:fuzzymatch.outside", text |-> Slice(m.word, 0, m.start_pos)]>>
         \o MatchRegion(Slice(m.word, m.start_pos, m.start_pos + m.match_length), q)
         \o <<[class |-> "class:fuzzymatch.outside",
               text |-> Slice(m.word, m.start_pos + m.match_length, Len(m.word))]>>

\* Completion(match.word, -len(word_before_cursor), display=...)
CompletionOf(m, q) ==
    [text |-> m.word, start_position |-> 0 - Len(q), display |-> get_display(m, q)]

---------------------------------------------------------------------------
(* Inputs *)

RECURSIVE StringsUpTo(_, _)
StringsUpTo(alphabet, n) ==
    IF n = 0 THEN {<<>>}
    ELSE LET shorter == StringsUpTo(alphabet, n - 1) IN
         shorter \cup {<<c>> \o s : c \in alphabet, s \in {t \in shorter : Len(t) = n - 1}}

EntryCost(e) == IF IsString(e) THEN 1 + Len(e) ELSE 1

RECURSIVE ListsOfCost(_)
\* The candidate lists of cost at most n.
ListsOfCost(n) ==
    IF n = 0 THEN {<<>>}
    ELSE {<<>>} \cup
         UNION {{<<e>> \o rest : rest \in ListsOfCost(n - EntryCost(e))} :
                e \in StringsUpTo(WordAlphabet, n - 1) \cup {NonString}}

CandidateLists == ListsOfCost(MaxSize)
Queries == StringsUpTo(QueryAlphabet, MaxQueryLen)

---------------------------------------------------------------------------
(* The object and one request *)

\* The arguments of FuzzyWordCompleter(...) and the document of the
\* request; nothing has run yet.
Init ==
    /\ self_words \in CandidateLists
    /\ words_callable \in BOOLEAN
    /\ sort_results \in BOOLEAN
    /\ word_before_cursor \in Queries
    /\ pc = "new"
    /\ calls = 0
    /\ words = <<>>
    /\ i = 0
    /\ fuzzy_matches = <<>>
    /\ results = <<>>

\* __init__: the assertion holds and the fields are stored.
Construct ==
    /\ pc = "new"
    /\ words_callable \/ \A k \in 1..Len(self_words) : IsString(self_words[k])
    /\ pc' = "ready"
    /\ UNCHANGED <<self_words, words_callable, sort_results, word_before_cursor,
                   calls, words, i, fuzzy_matches, results>>

\* __init__: the assertion fails (AssertionError), no object exists.
ConstructRejects ==
    /\ pc = "new"
    /\ ~(words_callable \/ \A k \in 1..Len(self_words) : IsString(self_words[k]))
    /\ pc' = "rejected"
    /\ UNCHANGED <<self_words, words_callable, sort_results, word_before_cursor,
                   calls, words, i, fuzzy_matches, results>>

\* get_completions up to the loop: the list of words is taken (the callable
\* is called and returns its list), the pattern is compiled.
GetWords ==
    /\ pc = "ready"
    /\ calls' = IF words_callable THEN calls + 1 ELSE calls
    /\ words' = self_words
    /\ fuzzy_matches' = <<>>
    /\ i' = 0
    /\ pc' = "matching"
    /\ UNCHANGED <<self_words, words_callable, sort_results, word_before_cursor, results>>

\* The callable raises: the exception leaves the generator.
GetWordsRaises ==
    /\ pc = "ready"
    /\ words_callable
    /\ calls' = calls + 1
    /\ pc' = "failed"
    /\ UNCHANGED <<self_words, sort_results, words_callable, word_before_cursor,
                   words, i, fuzzy_matches, results>>

\* The loop left at the first word that does not match.
MatchWord_StopsAtMiss ==
    /\ pc = "matching"
    /\ i < Len(words)
    /\ IsString(words[i + 1])
    /\ LET word == words[i + 1]
           matches == FindIter(word_before_cursor, word)
       IN /\ fuzzy_matches' = IF matches # <<>>
                              THEN Append(fuzzy_matches, FuzzyMatchOf(word_before_cursor, word))
                              ELSE fuzzy_matches
          /\ i' = IF matches # <<>> THEN i + 1 ELSE Len(words)
    /\ UNCHANGED <<self_words, words_callable, sort_results, word_before_cursor,
                   pc, calls, words, results>>

\* The callable asked again for every word.
MatchWord_CallsAgain ==
    /\ pc = "matching"
    /\ i < Len(words)
    /\ IsString(words[i + 1])
    /\ LET word == words[i + 1]
           matches == FindIter(word_before_cursor, word)
       IN fuzzy_matches' = IF matches # <<>>
                           THEN Append(fuzzy_matches, FuzzyMatchOf(word_before_cursor, word))
                           ELSE fuzzy_matches
    /\ i' = i + 1
    /\ calls' = IF words_callable THEN calls + 1 ELSE calls
    /\ UNCHANGED <<self_words, words_callable, sort_results, word_before_cursor,
                   pc, words, results>>

\* Each match yielded as soon as it is found.
MatchWord_YieldsEarly ==
    /\ pc = "matching"
    /\ i < Len(words)
    /\ IsString(words[i + 1])
    /\ LET word == words[i + 1]
           matches == FindIter(word_before_cursor, word)
           found == FuzzyMatchOf(word_before_cursor, word)
       IN /\ fuzzy_matches' = IF matches # <<>> THEN Append(fuzzy_matches, found)
                              ELSE fuzzy_matches
          /\ results' = IF matches # <<>>
                        THEN Append(results, CompletionOf(found, word_before_cursor))
                        ELSE results
    /\ i' = i + 1
    /\ UNCHANGED <<self_words, words_callable, sort_results, word_before_cursor,
                   pc, calls, words>>

\* One turn of `for word in words` on a string.
MatchWord ==
    /\ pc = "matching"
    /\ i < Len(words)
    /\ IsString(words[i + 1])
    /\ LET word == words[i + 1]
           matches == FindIter(word_before_cursor, word)
       IN fuzzy_matches' = IF matches # <<>>
                           THEN Append(fuzzy_matches, FuzzyMatchOf(word_before_cursor, word))
                           ELSE fuzzy_matches
    /\ i' = i + 1
    /\ UNCHANGED <<self_words, words_callable, sort_results, word_before_cursor,
                   pc, calls, words, results>>

\* One turn of the loop on an entry that is no string: regex.finditer
\* raises TypeError, which leaves the generator.
MatchWordRaises ==
    /\ pc = "matching"
    /\ i < Len(words)
    /\ ~IsString(words[i + 1])
    /\ pc' = "failed"
    /\ UNCHANGED <<self_words, words_callable, sort_results, word_before_cursor,
                   calls, words, i, fuzzy_matches, results>>

\* After the loop: fuzzy_matches = sorted(fuzzy_matches, key=sort_key).
\* self.sort_results is not read.
SortMatches ==
    /\ pc = "matching"
    /\ i = Len(words)
    /\ fuzzy_matches' = Sorted(fuzzy_matches)
    /\ i' = 0
    /\ pc' = "yielding"
    /\ UNCHANGED <<self_words, words_callable, sort_results, word_before_cursor,
                   calls, words, results>>

\* One turn of `for match in fuzzy_matches`: one Completion is yielded.
YieldCompletion ==
    /\ pc = "yielding"
    /\ i < Len(fuzzy_matches)
    /\ results' = Append(results, CompletionOf(fuzzy_matches[i + 1], word_before_cursor))
    /\ i' = i + 1
    /\ UNCHANGED <<self_words, words_callable, sort_results, word_before_cursor,
                   pc, calls, words, fuzzy_matches>>

\* The generator is exhausted.
Finish ==
    /\ pc = "yielding"
    /\ i = Len(fuzzy_matches)
    /\ pc' = "done"
    /\ UNCHANGED <<self_words, words_callable, sort_results, word_before_cursor,
                   calls, words, i, fuzzy_matches, results>>

Next ==
    \/ Construct
    \/ ConstructRejects
    \/ GetWords
    \/ GetWordsRaises
    \/ MatchWord
    \/ MatchWordRaises
    \/ SortMatches
    \/ YieldCompletion
    \/ Finish

Spec == Init /\ [][Next]_vars

---------------------------------------------------------------------------
(* Vocabulary of the statements *)

q == word_before_cursor

\* Number of candidates the loop of get_completions has dealt with.
Matched ==
    IF pc \in {"matching", "failed"} THEN i
    ELSE IF pc \in {"yielding", "done"} THEN Len(words)
    ELSE 0

Count(s, v) == Cardinality({k \in 1..Len(s) : s[k] = v})

\* The strictly increasing placements of n query characters on the
\* positions lo .. hi (1-based) of a word.
Placements(n, lo, hi) ==
    {f \in [1..n -> lo..hi] : \A k \in 1..(n - 1) : f[k] < f[k + 1]}

Fits(qq, w, f) == \A k \in 1..Len(qq) : Lower(qq[k]) = Lower(w[f[k]])

\* qq occurs in w, in order, without regard to case.
IsSubsequence(qq, w) == \E f \in Placements(Len(qq), 1, Len(w)) : Fits(qq, w, f)

\* w[s : s + l] is a substring of w that contains qq in order.
SpanContains(qq, w, s, l) ==
    /\ s + l <= Len(w)
    /\ \E f \in Placements(Len(qq), s + 1, s + l) : Fits(qq, w, f)

\* The placement f skips no line break between its first and last character.
SkipsNoLineBreak(qq, w, f) ==
    \A p \in f[1]..f[Len(qq)] : (\A k \in 1..Len(qq) : f[k] # p) => w[p] # "\n"

\* w[s : s + l] begins with the first character of qq and contains qq in
\* order on a placement that skips no line break.
AnchoredSpan(qq, w, s, l) ==
    /\ s + l <= Len(w)
    /\ \E f \in Placements(Len(qq), s + 1, s + l) :
          f[1] = s + 1 /\ Fits(qq, w, f) /\ SkipsNoLineBreak(qq, w, f)

HasAnchoredSpan(qq, w) ==
    \E s \in 0..Len(w), l \in 0..Len(w) : AnchoredSpan(qq, w, s, l)

\* No span of w accepted by Valid starts before (s, l), nor at s with a
\* smaller length.
NoBetterSpan(Valid(_, _), w, s, l) ==
    \A s2 \in 0..Len(w), l2 \in 0..Len(w) :
        Valid(s2, l2) => ~(s2 < s) /\ ~(s2 = s /\ l2 < l)

---------------------------------------------------------------------------
(* C1 *)

\* C1 as stated: for a non-empty query, every candidate that contains the
\* query as a case-insensitive subsequence gets an occurrence whose span
\* contains the query, and no substring of the candidate that contains the
\* query starts earlier, nor at the same start is shorter.
C1_AsStated ==
    q # <<>> =>
        \A k \in 1..Matched :
            IsSubsequence(q, words[k]) =>
                \E j \in 1..Len(fuzzy_matches) :
                    LET m == fuzzy_matches[j]
                        Valid(s, l) == SpanContains(q, m.word, s, l)
                    IN /\ m.word = words[k]
                       /\ Valid(m.start_pos, m.match_length)
                       /\ NoBetterSpan(Valid, m.word, m.start_pos, m.match_length)

\* C1 amended: the spans compared are those that begin with the query's
\* first character and skip no line break between matched characters.
\* Every candidate that has such a span gets an occurrence that is such a
\* span, and no such span starts earlier, nor at the same start is shorter.
C1_BestAnchoredSpan ==
    q # <<>> =>
        \A k \in 1..Matched :
            HasAnchoredSpan(q, words[k]) =>
                \E j \in 1..Len(fuzzy_matches) :
                    LET m == fuzzy_matches[j]
                        Valid(s, l) == AnchoredSpan(q, m.word, s, l)
                    IN /\ m.word = words[k]
                       /\ Valid(m.start_pos, m.match_length)
                       /\ NoBetterSpan(Valid, m.word, m.start_pos, m.match_length)

\* A recorded occurrence that starts inside the word and skips a character,
\* while a shorter span of the same word starts later.
C1_Witness ==
    /\ q # <<>>
    /\ \E j \in 1..Len(fuzzy_matches) :
          LET m == fuzzy_matches[j] IN
          /\ m.start_pos > 0
          /\ m.match_length > Len(q)
          /\ \E s \in 0..Len(m.word), l \in 0..Len(m.word) :
                AnchoredSpan(q, m.word, s, l) /\ s > m.start_pos /\ l < m.match_length

---------------------------------------------------------------------------
(* C10 *)

\* The span of an occurrence is in bounds and tight: at least as long as
\* the query, inside the word, beginning with the query's first character
\* and ending with its last.
TightSpan(m) ==
    /\ Len(q) <= m.match_length
    /\ m.start_pos + m.match_length <= Len(m.word)
    /\ Lower(m.word[m.start_pos + 1]) = Lower(q[1])
    /\ Lower(m.word[m.start_pos + m.match_length]) = Lower(q[Len(q)])

\* The query can be matched in w as a subsequence whose first character
\* sits at position s.
SubsequenceFrom(qq, w, s) ==
    \E f \in Placements(Len(qq), s + 1, Len(w)) : f[1] = s + 1 /\ Fits(qq, w, f)

\* C10 as stated: every occurrence recorded for a non-empty query has a
\* tight span in bounds, and its start is the smallest position from which
\* the query can be matched as a subsequence beginning at that position.
C10_AsStated ==
    q # <<>> =>
        \A j \in 1..Len(fuzzy_matches) :
            LET m == fuzzy_matches[j] IN
            /\ TightSpan(m)
            /\ SubsequenceFrom(q, m.word, m.start_pos)
            /\ \A s \in 0..Len(m.word) :
                  SubsequenceFrom(q, m.word, s) => m.start_pos <= s

\* C10 amended: the start is the smallest position from which the query
\* can be matched as a subsequence beginning at that position without
\* skipping a line break between matched characters.
C10_TightSpanSmallestStart ==
    q # <<>> =>
        \A j \in 1..Len(fuzzy_matches) :
            LET m == fuzzy_matches[j]
                From(s) == \E l \in 0..Len(m.word) : AnchoredSpan(q, m.word, s, l)
            IN /\ TightSpan(m)
               /\ From(m.start_pos)
               /\ \A s \in 0..Len(m.word) : From(s) => m.start_pos <= s

\* An occurrence of a two-character query that starts inside the word,
\* skips a character, and is not the only position the query matches from.
C10_Witness ==
    /\ Len(q) >= 2
    /\ \E j \in 1..Len(fuzzy_matches) :
          LET m == fuzzy_matches[j] IN
          /\ m.start_pos > 0
          /\ m.match_length > Len(q)
          /\ \E s \in 0..Len(m.word), l \in 0..Len(m.word) :
                s > m.start_pos /\ AnchoredSpan(q, m.word, s, l)

---------------------------------------------------------------------------
(* C4 *)

\* The request ran to its end and yielded exactly one result per entry
\* accepted by Accepts, none for the others.
OneResultPerAccepted(Accepts(_)) ==
    pc = "done" =>
        /\ Len(results) = Cardinality({k \in 1..Len(words) : Accepts(words[k])})
        /\ \A k \in 1..Len(words) :
              Count([r \in 1..Len(results) |-> results[r].text], words[k])
                  = IF Accepts(words[k]) THEN Count(words, words[k]) ELSE 0

\* C4 as stated: one result per entry whose word contains the query as a
\* case-insensitive subsequence, and no result for any other entry.
C4_AsStated ==
    LET Accepts(w) == IsSubsequence(q, w) IN OneResultPerAccepted(Accepts)

\* C4 amended: one result per entry whose word contains the query as a
\* case-insensitive subsequence on a placement that skips no line break
\* between matched characters; no result for any other entry; entries that
\* do not match are passed over and the entries after them still count.
C4_OneResultPerMatchingEntry ==
    LET Accepts(w) == q = <<>> \/ HasAnchoredSpan(q, w) IN OneResultPerAccepted(Accepts)

\* A finished request in which an entry that does not match comes before
\* one that does, and the later one is among the results.
C4_Witness ==
    /\ pc = "done"
    /\ q # <<>>
    /\ \E k1, k2 \in 1..Len(words) :
          /\ k1 < k2
          /\ ~HasAnchoredSpan(q, words[k1])
          /\ HasAnchoredSpan(q, words[k2])
          /\ \E r \in 1..Len(results) : results[r].text = words[k2]

---------------------------------------------------------------------------
(* C2, C3 *)

ResultTexts == [r \in 1..Len(results) |-> results[r].text]

\* The candidates the matcher accepts, in the order of the candidate list,
\* each with its occurrence.
MatchedInOrder ==
    LET Accepted(w) == FindIter(q, w) # <<>>
        kept == SelectSeq(words, Accepted)
    IN [k \in 1..Len(kept) |-> FuzzyMatchOf(q, kept[k])]

\* C2 as stated: with sort_results False the results come in the order of
\* the candidate list.
C2_AsStated ==
    (pc = "done" /\ ~sort_results) =>
        ResultTexts = [k \in 1..Len(MatchedInOrder) |-> MatchedInOrder[k].word]

\* s is m put in ascending order of (start_pos, match_length), elements of
\* equal key in the order they have in m.
IsStableRanking(s, m) ==
    /\ Len(s) = Len(m)
    /\ \E perm \in [1..Len(m) -> 1..Len(m)] :
          /\ \A k \in 1..Len(m) : s[k] = m[perm[k]]
          /\ \A j, k \in 1..Len(m) :
                j < k => /\ ~KeyLess(sort_key(s[k]), sort_key(s[j]))
                         /\ perm[j] # perm[k]
                         /\ sort_key(s[j]) = sort_key(s[k]) => perm[j] < perm[k]

\* C3: with sort_results True, the matches are yielded in ascending order
\* of (start_pos, match_length), matches of equal key in the order of their
\* candidates in the word list.
C3_StableAscendingOrder ==
    (sort_results /\ pc \in {"yielding", "done"}) =>
        /\ IsStableRanking(fuzzy_matches, MatchedInOrder)
        /\ Len(results) = i
        /\ \A r \in 1..Len(results) : results[r].text = fuzzy_matches[r].word

\* Two different words of equal key were both yielded, for a query that
\* is not empty.
C3_Witness ==
    /\ sort_results
    /\ q # <<>>
    /\ pc = "done"
    /\ \E j, k \in 1..Len(fuzzy_matches) :
          /\ j < k
          /\ sort_key(fuzzy_matches[j]) = sort_key(fuzzy_matches[k])
          /\ fuzzy_matches[j].word # fuzzy_matches[k].word
          /\ results[j].text = fuzzy_matches[j].word
          /\ results[k].text = fuzzy_matches[k].word

---------------------------------------------------------------------------
(* C5, C6, C7 *)

RECURSIVE Concat(_)
Concat(fragments) ==
    IF fragments = <<>> THEN <<>> ELSE Head(fragments).text \o Concat(Tail(fragments))

RECURSIVE TagsIgnoringCase(_, _)
\* The classes of the match region when a character counts as a query
\* character if it equals the next unconsumed one without regard to case.
TagsIgnoringCase(span, characters) ==
    IF span = <<>> THEN <<>>
    ELSE LET hit == characters # <<>> /\ Lower(Head(span)) = Lower(Head(characters))
         IN <<IF hit THEN "class:fuzzymatch.inside.character" ELSE "class:fuzzymatch.inside">>
            \o TagsIgnoringCase(Tail(span), IF hit THEN Tail(characters) ELSE characters)

\* The fragments of a display between its first and its last.
Inner(display) == SubSeq(display, 2, Len(display) - 1)

\* C5 as stated: in the match region a character is tagged
\* inside.character exactly when it equals, without regard to case, the
\* next unconsumed query character.
C5_AsStated ==
    \A r \in 1..Len(results) :
        LET d == results[r].display IN
        Len(d) >= 3 =>
            [k \in 1..Len(Inner(d)) |-> Inner(d)[k].class]
                = TagsIgnoringCase(Concat(Inner(d)), q)

\* C6: the texts of the fragments of every display, put together in order,
\* are the candidate word.
C6_DisplayRoundTrip ==
    \A r \in 1..Len(results) : Concat(results[r].display) = results[r].text

\* A display with text before the match, text after it, and inside it a
\* character tagged as query character and one that is not.
C6_Witness ==
    \E r \in 1..Len(results) :
        LET d == results[r].display IN
        /\ Len(d) >= 3
        /\ d[1].text # <<>>
        /\ d[Len(d)].text # <<>>
        /\ \E k \in 1..Len(d) : d[k].class = "class:fuzzymatch.inside"
        /\ \E k \in 1..Len(d) : d[k].class = "class:fuzzymatch.inside.character"

\* C7: with the empty query every candidate gets the occurrence (0, 0),
\* every candidate is yielded, and each display is the word as one
\* fragment without a class.
C7_EmptyQueryMatchesAll ==
    q = <<>> =>
        /\ Len(fuzzy_matches) = Matched
        /\ \A j \in 1..Len(fuzzy_matches) :
              fuzzy_matches[j].start_pos = 0 /\ fuzzy_matches[j].match_length = 0
        /\ pc = "done" =>
              /\ Len(results) = Len(words)
              /\ \A k \in 1..Len(words) : Count(ResultTexts, words[k]) = Count(words, words[k])
        /\ \A r \in 1..Len(results) :
              results[r].display = <<[class |-> "", text |-> results[r].text]>>

\* A finished request with the empty query on a list that holds the empty
\* word and a longer one.
C7_Witness ==
    /\ q = <<>>
    /\ pc = "done"
    /\ \E j, k \in 1..Len(results) : results[j].text = <<>> /\ Len(results[k].text) >= 2

---------------------------------------------------------------------------
(* C8, C9 *)

\* C8: a request on a callable source calls it once, before the first
\* candidate is matched, and holds the whole list it returned from then on.
C8_SourceCalledOnce ==
    /\ pc \in {"new", "ready", "rejected"} => calls = 0
    /\ ~words_callable => calls = 0
    /\ (words_callable /\ pc \in {"matching", "yielding", "done", "failed"}) =>
          calls = 1
    /\ pc \in {"matching", "yielding", "done"} => words = self_words

\* A request on a callable source that has matched two candidates and
\* yielded a result.
C8_Witness ==
    /\ words_callable
    /\ q # <<>>
    /\ pc = "yielding"
    /\ Len(words) >= 2
    /\ Len(results) >= 1
    /\ calls = 1

\* C9: a request that fails has yielded nothing; a static list with an
\* entry that is no string is refused by the constructor; a result is only
\* yielded once every candidate has been matched.
C9_NoPartialResults ==
    /\ pc \in {"failed", "rejected"} => results = <<>>
    /\ (~words_callable /\ \E k \in 1..Len(self_words) : ~IsString(self_words[k])) =>
          pc \in {"new", "rejected"}
    /\ results # <<>> =>
          /\ pc \in {"yielding", "done"}
          /\ \A k \in 1..Len(words) : IsString(words[k])

\* A request that failed on an entry that is no string after a candidate
\* before it had matched.
C9_Witness ==
    /\ pc = "failed"
    /\ q # <<>>
    /\ fuzzy_matches # <<>>
    /\ results = <<>>

=============================================================================
